---- MODULE Spec2Model ----
(***************************************************************************)
(* A model of pyinterfacer's Interface (interface/interface.py): the       *)
(* component list, the per-type dispatch groups, the main sprite group,    *)
(* the subgroups, the two overlay managers and the binding manager of each *)
(* interface, and the operations an application calls on an interface.     *)
(*                                                                         *)
(* The groups, the managers and the conversion table are imported by       *)
(* interface.py from sibling packages; their behaviour is written here     *)
(* from the design document and is marked "design document" where it is.   *)
(***************************************************************************)
EXTENDS Integers, Sequences, FiniteSets, TLC

\* ----------------------------------------------------------------- bounds

\* Components declared over all the interfaces of one run.
MaxComponents == 2
\* External sprite groups added through add_subgroup, over all interfaces.
MaxSubgroups == 2
\* Bindings registered over one run (every registration gets a fresh id).
MaxRegistrations == 2

\* ------------------------------------------------------------- universes

\* The interfaces loaded at once.
Names == {"A", "B"}
\* Positions of the mouse.
Points == {1, 2}
\* Values of a component attribute.
Values == {0, 1}
\* Sprite groups of the application, outside any interface.
ExtGroups == {"g1", "g2"}

VARIABLES
    display,      \* display[i]: Interface.display
    bgImage,      \* bgImage[i]: whether Interface._bg_image is not None
    components,   \* components[i]: Interface._components
    typeGroups,   \* typeGroups[i]: Interface._component_type_groups, in key order
    group,        \* group[i]: Interface._group
    subgroups,    \* subgroups[i]: Interface._subgroups
    overlay,      \* overlay[i]: interfaces targeted by Interface._overlay
    underlayer,   \* underlayer[i]: interfaces targeted by Interface._underlayer
    bindings,     \* bindings[i]: the registry of Interface._bindings
    loaded,       \* the interfaces that have been constructed and not unloaded
    definition,   \* definition[i]: the definition interface i is built from
    resolved,     \* resolved[i]: the records handed to convert_component (history)
    bgColor,      \* bgColor[i]: Interface._bg_color
    bgValue,      \* bgValue[i]: the value last given as background (history)
    issued,       \* every binding ever registered, by id (history)
    trace,        \* what the last operation did, in order (history)
    lastOp        \* the last operation called (history)

vars == <<display, bgImage, components, typeGroups, group, subgroups,
          overlay, underlayer, bindings, loaded, definition, resolved,
          bgColor, bgValue, issued, trace, lastOp>>

loading == <<loaded, definition, resolved, bgColor, bgValue>>

structure == <<display, bgImage, components, typeGroups, group>>

\* ---------------------------------------------------------------- events

\* One entry of the trace: ev happened during a call on interface via, to
\* (a group or a component of) interface iface.
Ev(ev, via, iface, grp, idx, pt) ==
    [ev |-> ev, via |-> via, iface |-> iface, grp |-> grp, idx |-> idx,
     pt |-> pt, filter |-> {}]

\* A group of interface iface is asked to handle an event for the interfaces
\* of filter.
Ask(cap, via, iface, grp, pt, filter) ==
    [Ev("ask", via, iface, grp, 0, pt) EXCEPT !.ev = "ask_" \o cap,
                                               !.filter = filter]

Op(op, iface, arg) == [op |-> op, iface |-> iface, arg |-> arg]

RECURSIVE Flatten(_)
Flatten(ss) == IF ss = <<>> THEN <<>> ELSE Head(ss) \o Flatten(Tail(ss))

Range(s) == {s[k] : k \in DOMAIN s}

\* ------------------------------------------------------ conversion table

\* Design document, 4.1: the type or subtype of a component selects a
\* specialised dispatch group.
GROUP_CONVERSION_TABLE ==
    [t \in {"button", "input", "clickable", "hoverable"} |->
        CASE t = "button" -> "ButtonGroup"
          [] t = "input" -> "InputGroup"
          [] t = "clickable" -> "ClickableGroup"
          [] t = "hoverable" -> "HoverableGroup"]

\* Design document, 3: a component's subtype refines its type.
SubtypeOf(type) ==
    CASE type = "button" -> "clickable"
      [] type = "input" -> "input"
      [] type = "link" -> "clickable"
      [] type = "tooltip" -> "hoverable"
      [] OTHER -> "none"

\* Design document, 4.2: the capabilities of a group class, i.e. which of
\* ClickableGroup, HoverableGroup and InputGroup it is an instance of.
Caps(cls) ==
    CASE cls = "ButtonGroup" -> {"click", "hover"}
      [] cls = "ClickableGroup" -> {"click"}
      [] cls = "HoverableGroup" -> {"hover"}
      [] cls = "InputGroup" -> {"input"}
      [] OTHER -> {}

\* _ConversionMapping.convert_component(type_, interface=name, **component):
\* the component keeps the attributes of its record and the name of the
\* interface that built it.  rect stands for the bounds the component ends
\* with, declines for whether it passes a click on, upd for whether its own
\* update() changes its attribute val.
ConvertComponent(name, rec) ==
    [id |-> rec.id, type |-> rec.type, subtype |-> SubtypeOf(rec.type),
     interface |-> name, rect |-> rec.rect, declines |-> rec.declines,
     upd |-> rec.upd, val |-> rec.val]

\* -------------------------------------------------------- construction

\* _parse_components, lines 348-350: a record without "id" gets "_".
AssignId(rec) ==
    IF "id" \in DOMAIN rec THEN rec
    ELSE [k \in DOMAIN rec \cup {"id"} |-> IF k = "id" THEN "_" ELSE rec[k]]

TypeKeys(tgs) == {tgs[k].type : k \in DOMAIN tgs}

TypeIndex(tgs, type) == CHOOSE k \in DOMAIN tgs : tgs[k].type = type

\* A choice of group class that looks the subtype up before the type.
NewGroupClassSubtypeFirst(c) ==
    IF c.subtype \in DOMAIN GROUP_CONVERSION_TABLE
    THEN GROUP_CONVERSION_TABLE[c.subtype]
    ELSE IF c.type \in DOMAIN GROUP_CONVERSION_TABLE
         THEN GROUP_CONVERSION_TABLE[c.type]
         ELSE "ComponentGroup"

\* __handle_new_type_group: the group class for a type without a group.
NewGroupClass(c) ==
    IF c.type \in DOMAIN GROUP_CONVERSION_TABLE
    THEN GROUP_CONVERSION_TABLE[c.type]
    ELSE IF c.subtype \in DOMAIN GROUP_CONVERSION_TABLE
         THEN GROUP_CONVERSION_TABLE[c.subtype]
         ELSE "ComponentGroup"

HandleNewTypeGroup(tgs, c) ==
    Append(tgs, [type |-> c.type, cls |-> NewGroupClass(c), members |-> <<>>])

\* pygame.sprite.Group.add: a sprite joins a group once, in insertion order.
SpriteAdd(members, k) ==
    IF k \in Range(members) THEN members ELSE Append(members, k)

TypeGroupAdd(tgs, type, k) ==
    [tgs EXCEPT ![TypeIndex(tgs, type)].members = SpriteAdd(@, k)]

\* A parse step that forgets the main group.
ParseStepNoMainGroup(name, st, rec) ==
    LET c == ConvertComponent(name, AssignId(rec))
        comps == Append(st.components, c)
        tgs == IF c.type \in TypeKeys(st.typeGroups) THEN st.typeGroups
               ELSE HandleNewTypeGroup(st.typeGroups, c)
    IN [components |-> comps,
        typeGroups |-> TypeGroupAdd(tgs, c.type, Len(comps)),
        group |-> st.group]

\* _parse_components, one turn of the loop over the records.
ParseStep(name, st, rec) ==
    LET c == ConvertComponent(name, AssignId(rec))
        comps == Append(st.components, c)
        tgs == IF c.type \in TypeKeys(st.typeGroups) THEN st.typeGroups
               ELSE HandleNewTypeGroup(st.typeGroups, c)
    IN [components |-> comps,
        typeGroups |-> TypeGroupAdd(tgs, c.type, Len(comps)),
        group |-> SpriteAdd(st.group, Len(comps))]

RECURSIVE ParseComponents(_, _, _)
ParseComponents(name, st, recs) ==
    IF recs = <<>> THEN st
    ELSE ParseComponents(name, ParseStep(name, st, Head(recs)), Tail(recs))

\* Interface.__init__: the component structures of a new interface.
NewInterface(name, recs) ==
    ParseComponents(name,
                    [components |-> <<>>, typeGroups |-> <<>>, group |-> <<>>],
                    recs)

\* ------------------------------------------- resolution of the records

\* The values of width, height, x and y in a record: a number of pixels, a
\* percentage string such as "50%", the string "auto", and None.
Px(n) == [t |-> "int", v |-> n]
Pct(p) == [t |-> "pct", v |-> p]
Auto == [t |-> "auto", v |-> 0]
NoneValue == [t |-> "none", v |-> 0]

\* An optional number (rows, columns, the size of a grid cell).
None == [some |-> FALSE, v |-> 0]
Some(n) == [some |-> TRUE, v |-> n]

\* The "style" of a record: one class name (a str) or a list of class
\* names.  A class name is the sequence of its characters.
StyleName(name) == [str |-> TRUE, names |-> <<name>>]
StyleList(names) == [str |-> FALSE, names |-> names]

\* component[k] = v.
Put(c, k, v) == [a \in DOMAIN c \cup {k} |-> IF a = k THEN v ELSE c[a]]

\* component.get(k).
Get(c, k) == IF k \in DOMAIN c THEN c[k] ELSE NoneValue

\* __parse_style_classes, the loop over the items of one class: an attribute
\* is taken from the class if the record does not have it.
MergeClass(c, cls) ==
    [a \in DOMAIN c \cup DOMAIN cls |-> IF a \in DOMAIN c THEN c[a] ELSE cls[a]]

\* __parse_style_classes, lines 455-461: the loop over component["style"].
RECURSIVE MergeClasses(_, _, _)
MergeClasses(classes, c, items) ==
    IF items = <<>> THEN c
    ELSE MergeClasses(classes,
                      IF Head(items) \in DOMAIN classes
                      THEN MergeClass(c, classes[Head(items)])
                      ELSE c,
                      Tail(items))

\* What a loop over component["style"] visits: the names of a list, the
\* one-character strings of a str.
StyleItems(style) ==
    IF style.str
    THEN [n \in DOMAIN style.names[1] |-> <<style.names[1][n]>>]
    ELSE style.names

\* A style merge that lets the classes overwrite the record.
ParseStyleClassesOverwriting(styles, c) ==
    IF "style" \notin DOMAIN c \/ ~styles.some THEN c
    ELSE LET names == SelectSeq(c["style"].names,
                                LAMBDA n : n \in DOMAIN styles.classes)
         IN IF names = <<>> THEN c
            ELSE MergeClass(styles.classes[Head(names)], c)

\* A style merge in which the class listed last wins.
ParseStyleClassesLastWins(styles, c) ==
    IF "style" \notin DOMAIN c \/ ~styles.some THEN c
    ELSE LET items == StyleItems(c["style"])
         IN MergeClasses(styles.classes, c,
                         [n \in DOMAIN items |-> items[Len(items) + 1 - n]])

\* __parse_style_classes(component).
ParseStyleClasses(styles, c) ==
    IF "style" \notin DOMAIN c \/ ~styles.some THEN c
    ELSE IF c["style"].str /\ c["style"].names[1] \in DOMAIN styles.classes
         THEN MergeClass(c, styles.classes[c["style"].names[1]])
         ELSE IF Len(StyleItems(c["style"])) = 0 THEN c
              ELSE MergeClasses(styles.classes, c, StyleItems(c["style"]))

\* int(q) of the quotient n / d, d > 0: the fraction is dropped.
Trunc(n, d) == IF n >= 0 THEN n \div d ELSE -((-n) \div d)

\* Design document, 4.3: percent_to_float("p%") is p / 100.
PercentToFloat(p) == [num |-> p, den |-> 100]

\* int(base * percent_to_float(w)).
IntOfProduct(base, f) == Trunc(base * f.num, f.den)

\* A percentage stage that leaves a percentage without base as it is.
ParsePercentageLenient(st, k, base) ==
    IF st.err \/ k \notin DOMAIN st.c THEN st
    ELSE IF st.c[k].t # "pct" \/ ~base.some THEN st
         ELSE [err |-> FALSE,
               c |-> Put(st.c, k,
                         Px(IntOfProduct(base.v, PercentToFloat(st.c[k].v))))]

\* __parse_percentage_values, one of the four attributes: st is [err, c],
\* err after None * float has raised.
ParsePercentage(st, k, base) ==
    IF st.err \/ k \notin DOMAIN st.c THEN st
    ELSE IF st.c[k].t # "pct" THEN st
         ELSE IF ~base.some THEN [err |-> TRUE, c |-> st.c]
              ELSE [err |-> FALSE,
                    c |-> Put(st.c, k,
                              Px(IntOfProduct(base.v, PercentToFloat(st.c[k].v))))]

\* A percentage stage that always takes the size of the interface as base.
ParsePercentageValuesOfSize(size, c, gw, gh) ==
    ParsePercentage(
        ParsePercentage(
            ParsePercentage(
                ParsePercentage([err |-> FALSE, c |-> c], "width", Some(size[1])),
                "height", Some(size[2])),
            "x", Some(size[1])),
        "y", Some(size[2]))

\* __parse_percentage_values(component, gw, gh).
ParsePercentageValues(size, c, gw, gh) ==
    LET width == IF "grid_cell" \in DOMAIN c THEN gw ELSE Some(size[1])
        height == IF "grid_cell" \in DOMAIN c THEN gh ELSE Some(size[2])
    IN ParsePercentage(
           ParsePercentage(
               ParsePercentage(
                   ParsePercentage([err |-> FALSE, c |-> c], "width", width),
                   "height", height),
               "x", width),
           "y", height)

\* __parse_grid_values, lines 425-432: the size of a component in a cell.
GridSizing(c, k, cell) ==
    IF k \notin DOMAIN c THEN Put(c, k, Px(cell))
    ELSE IF c[k] = Auto THEN Put(c, k, NoneValue)
         ELSE c

\* A grid stage that counts the cells down the columns.
ParseGridValuesColumnMajor(disp, c, gw, gh, columns) ==
    IF disp # "grid" \/ "grid_cell" \notin DOMAIN c THEN c
    ELSE LET row == c["grid_cell"] % columns.v
             column == c["grid_cell"] \div columns.v
             placed == Put(Put(c, "x", Px(Trunc(2 * (column * gw.v) + gw.v, 2))),
                           "y", Px(Trunc(2 * (row * gh.v) + gh.v, 2)))
         IN GridSizing(GridSizing(placed, "width", gw.v), "height", gh.v)

\* A grid stage that gives "auto" the size of the cell.
ParseGridValuesAutoIsCell(disp, c, gw, gh, columns) ==
    IF disp # "grid" \/ "grid_cell" \notin DOMAIN c THEN c
    ELSE LET row == c["grid_cell"] \div columns.v
             column == c["grid_cell"] % columns.v
             placed == Put(Put(c, "x", Px(Trunc(2 * (column * gw.v) + gw.v, 2))),
                           "y", Px(Trunc(2 * (row * gh.v) + gh.v, 2)))
         IN Put(Put(placed, "width", Px(gw.v)), "height", Px(gh.v))

\* __parse_grid_values(component, gw, gh, columns).
ParseGridValues(disp, c, gw, gh, columns) ==
    IF disp # "grid" THEN c
    ELSE IF "grid_cell" \notin DOMAIN c THEN c
         ELSE LET row == c["grid_cell"] \div columns.v
                  column == c["grid_cell"] % columns.v
                  placed ==
                      Put(Put(c, "x", Px(Trunc(2 * (column * gw.v) + gw.v, 2))),
                          "y", Px(Trunc(2 * (row * gh.v) + gh.v, 2)))
              IN GridSizing(GridSizing(placed, "width", gw.v), "height", gh.v)

\* _parse_components, lines 326-331: the size of a grid cell; err when the
\* division of the size by rows or columns raises.
GridCellSize(disp, size, rows, columns) ==
    IF disp # "grid" THEN [err |-> FALSE, gw |-> None, gh |-> None]
    ELSE IF ~rows.some \/ ~columns.some \/ rows.v = 0 \/ columns.v = 0
         THEN [err |-> TRUE, gw |-> None, gh |-> None]
         ELSE [err |-> FALSE, gw |-> Some(size[1] \div columns.v),
               gh |-> Some(size[2] \div rows.v)]

\* _parse_components, lines 335-353: a record made ready for
\* convert_component.
ResolveRecord(def, cell, rec) ==
    LET styled == ParseStyleClasses(def.styles, rec)
        sized == ParsePercentageValues(def.size, styled, cell.gw, cell.gh)
        placed == AssignId(ParseGridValues(def.display, sized.c, cell.gw,
                                           cell.gh, def.columns))
    IN IF sized.err THEN [err |-> TRUE, c |-> rec]
       ELSE [err |-> FALSE,
             c |-> Put(Put(placed, "pos", <<Get(placed, "x"), Get(placed, "y")>>),
                       "size", <<Get(placed, "width"), Get(placed, "height")>>)]

\* _parse_components, the loop, with the records as resolved: st is
\* [err, components, typeGroups, group, resolved].
RECURSIVE LoadComponents(_, _, _, _, _)
LoadComponents(name, def, cell, st, recs) ==
    IF st.err \/ recs = <<>> THEN st
    ELSE LET r == ResolveRecord(def, cell, Head(recs))
             n == ParseStep(name,
                            [components |-> st.components,
                             typeGroups |-> st.typeGroups, group |-> st.group],
                            r.c)
         IN IF r.err THEN [st EXCEPT !.err = TRUE]
            ELSE LoadComponents(name, def, cell,
                                [err |-> FALSE, components |-> n.components,
                                 typeGroups |-> n.typeGroups, group |-> n.group,
                                 resolved |-> Append(st.resolved, r.c)],
                                Tail(recs))

\* ------------------------------------------------------- dispatch groups

\* Design document, 4.2 and 8: a click goes to the members owned by an
\* interface of the filter whose bounds hold the position, the latest
\* inserted (drawn on top) first; a member that takes it stops it, a member
\* that declines passes it to the next one below.
RECURSIVE GroupHandleClick(_, _, _, _, _, _)
GroupHandleClick(via, owner, g, k, p, filter) ==
    IF k = 0 THEN <<>>
    ELSE LET c == components[owner][g.members[k]]
         IN IF c.interface \in filter /\ p \in c.rect
            THEN <<Ev("click", via, owner, g.type, g.members[k], p)>>
                 \o (IF c.declines
                     THEN GroupHandleClick(via, owner, g, k - 1, p, filter)
                     ELSE <<>>)
            ELSE GroupHandleClick(via, owner, g, k - 1, p, filter)

\* Design document, 4.2: hover is recomputed for every member owned by an
\* interface of the filter, against the current mouse position.
GroupHandleHover(via, owner, g, p, filter) ==
    LET ks == SelectSeq(g.members,
                        LAMBDA k : components[owner][k].interface \in filter)
    IN [n \in DOMAIN ks |-> Ev("hover", via, owner, g.type, ks[n], p)]

\* Design document, 4.2: an input event goes to the members owned by an
\* interface of the filter.
GroupHandleInput(via, owner, g, filter) ==
    LET ks == SelectSeq(g.members,
                        LAMBDA k : components[owner][k].interface \in filter)
    IN [n \in DOMAIN ks |-> Ev("input", via, owner, g.type, ks[n], 0)]

\* What one group does when it is asked to handle an event.
GroupHandle(cap, via, owner, g, p, filter) ==
    <<Ask(cap, via, owner, g.type, p, filter)>>
    \o (CASE cap = "click" ->
               GroupHandleClick(via, owner, g, Len(g.members), p, filter)
          [] cap = "hover" -> GroupHandleHover(via, owner, g, p, filter)
          [] cap = "input" -> GroupHandleInput(via, owner, g, filter))

\* ------------------------------------------------------- binding manager

\* A binding: kind "component" copies src's attribute to dst's, "callback"
\* assigns the callback's return value ret to dst's attribute, "condition"
\* calls its callback when its condition (component cond holds 1) is met.
Binding(id, kind, src, dst, ret, cond, keep) ==
    [id |-> id, kind |-> kind, src |-> src, dst |-> dst, ret |-> ret,
     cond |-> cond, keep |-> keep]

SetVal(comps, k, v) == [comps EXCEPT ![k].val = v]

\* Design document, 4.4: one binding evaluated on the components comps.
\* st is [comps, kept, events]: the components, the bindings that stay
\* registered and the events so far.
EvalBinding(i, st, b) ==
    CASE b.kind = "component" ->
           [comps |-> SetVal(st.comps, b.dst, st.comps[b.src].val),
            kept |-> Append(st.kept, b),
            events |-> Append(st.events, Ev("copy", i, i, b.kind, b.id, 0))]
      [] b.kind = "callback" ->
           [comps |-> SetVal(st.comps, b.dst, b.ret),
            kept |-> Append(st.kept, b),
            events |-> Append(st.events, Ev("copy", i, i, b.kind, b.id, 0))]
      [] b.kind = "condition" ->
           IF st.comps[b.cond].val = 1
           THEN [comps |-> st.comps,
                 kept |-> IF b.keep THEN Append(st.kept, b) ELSE st.kept,
                 events |-> st.events
                            \o <<Ev("condition", i, i, b.kind, b.id, 1),
                                 Ev("callback", i, i, b.kind, b.id, 0)>>]
           ELSE [comps |-> st.comps,
                 kept |-> Append(st.kept, b),
                 events |-> Append(st.events,
                                   Ev("condition", i, i, b.kind, b.id, 0))]

\* Design document, 4.4: evaluate(), every registered binding once, in
\* registration order.
RECURSIVE EvalBindings(_, _, _)
EvalBindings(i, st, bs) ==
    IF bs = <<>> THEN st
    ELSE EvalBindings(i, EvalBinding(i, st, Head(bs)), Tail(bs))

BindingsHandle(i, comps, bs) ==
    EvalBindings(i, [comps |-> comps, kept |-> <<>>, events |-> <<>>], bs)

\* Design document, 4.4: register(binding) gives the binding a fresh id.
NextId == Len(issued) + 1

\* Design document, 4.4: unregister(id), a no-op for an unknown id.
Unregister(bs, id) == SelectSeq(bs, LAMBDA b : b.id # id)

\* The callbacks fired by the events es, counted per binding that was not
\* to be kept (a count stops at 2, which stands for "more than once").
CountFires(iss, es) ==
    [id \in DOMAIN iss |->
        LET n == Cardinality({k \in DOMAIN es :
                                es[k].ev = "callback" /\ es[k].idx = id})
            m == iss[id].fires + n
        IN IF iss[id].keep THEN iss[id]
           ELSE [iss[id] EXCEPT !.fires = IF m > 2 THEN 2 ELSE m]]

\* ------------------------------------------------------ update and draw

\* The components whose own update() changes their attribute val.
Updatable ==
    {c \in Names \X (1..MaxComponents) :
        c[2] \in DOMAIN components[c[1]] /\ components[c[1]][c[2]].upd}

\* The values the update() methods of the updatable components leave.
NewVals == [Updatable -> Values]

\* pygame.sprite.Group.update on Interface._group of interface i.
GroupUpdate(i, comps, nv) ==
    [k \in DOMAIN comps |->
        IF <<i, k>> \in DOMAIN nv THEN [comps[k] EXCEPT !.val = nv[<<i, k>>]]
        ELSE comps[k]]

SubgroupEvents(ev, root, i) ==
    [n \in DOMAIN subgroups[i] |-> Ev(ev, root, i, subgroups[i][n], 0, 0)]

RECURSIVE UpdateInterface(_, _, _, _)
RECURSIVE UpdateInterfaces(_, _, _, _)

\* Design document, 4 (Overlay Manager): update_interfaces(dt) updates the
\* interfaces the manager targets, in order.
UpdateInterfaces(root, js, st, nv) ==
    IF js = <<>> THEN st
    ELSE UpdateInterfaces(root, Tail(js),
                          UpdateInterface(root, Head(js), st, nv), nv)

\* Interface.update(dt) on interface i, called (through overlays) from a
\* call on root.  st is [comps, binds, events] over all interfaces.
UpdateInterface(root, i, st, nv) ==
    LET updated == GroupUpdate(i, st.comps[i], nv)
        r == BindingsHandle(i, updated, st.binds[i])
        after == [comps |-> [st.comps EXCEPT ![i] = r.comps],
                  binds |-> [st.binds EXCEPT ![i] = r.kept],
                  events |-> st.events
                             \o <<Ev("update", root, i, "main", 0, 0)>>
                             \o SubgroupEvents("update", root, i)
                             \o <<Ev("bindings", root, i, "", 0, 0)>>
                             \o r.events]
    IN UpdateInterfaces(root, overlay[i], after, nv)

UpdateResult(i, nv) ==
    UpdateInterface(i, i, [comps |-> components, binds |-> bindings,
                           events |-> <<>>], nv)

RECURSIVE DrawInterface(_, _)
RECURSIVE RenderInterfaces(_, _)

\* Design document, 4 (Overlay Manager): render(surface) draws the
\* interfaces the manager targets, in order.
RenderInterfaces(root, js) ==
    IF js = <<>> THEN <<>>
    ELSE DrawInterface(root, Head(js)) \o RenderInterfaces(root, Tail(js))

\* Interface.draw(surface): the background.
DrawBackground(root, i) ==
    IF bgImage[i] THEN <<Ev("background", root, i, "blit", 0, 0)>>
    ELSE IF display[i] # "overlay"
         THEN <<Ev("background", root, i, "fill", 0, 0)>>
         ELSE <<>>

\* A draw that puts the components below the underlayer.
DrawInterfaceGroupsFirst(root, i) ==
    DrawBackground(root, i)
    \o <<Ev("draw", root, i, "main", 0, 0)>>
    \o SubgroupEvents("draw", root, i)
    \o RenderInterfaces(root, underlayer[i])
    \o <<Ev("underlayer", root, i, "", 0, 0)>>
    \o RenderInterfaces(root, overlay[i])
    \o <<Ev("overlay", root, i, "", 0, 0)>>

\* Interface.draw(surface) on interface i.
DrawInterface(root, i) ==
    DrawBackground(root, i)
    \o RenderInterfaces(root, underlayer[i])
    \o <<Ev("underlayer", root, i, "", 0, 0)>>
    \o <<Ev("draw", root, i, "main", 0, 0)>>
    \o SubgroupEvents("draw", root, i)
    \o RenderInterfaces(root, overlay[i])
    \o <<Ev("overlay", root, i, "", 0, 0)>>

\* ---------------------------------------------------------- event routing

\* A routing that asks the type groups of every loaded interface, for every
\* interface.
EmitTraceAllInterfaces(cap, i, p) ==
    LET js == IF i = "A" THEN <<"A", "B">> ELSE <<"B", "A">>
    IN Flatten([n \in DOMAIN js |->
          Flatten([k \in DOMAIN typeGroups[js[n]] |->
                IF cap \in Caps(typeGroups[js[n]][k].cls)
                THEN GroupHandle(cap, i, js[n], typeGroups[js[n]][k], p, Names)
                ELSE <<>>])])

\* A routing that tests every group against ClickableGroup.
EmitTraceClickableOnly(cap, i, p) ==
    Flatten([k \in DOMAIN typeGroups[i] |->
                IF "click" \in Caps(typeGroups[i][k].cls)
                THEN GroupHandle(cap, i, i, typeGroups[i][k], p, {i})
                ELSE <<>>])

\* emit_click, emit_input and handle_hover: every type group of the
\* interface that is an instance of the capability's group class is asked,
\* with the filter (self.name,).
EmitTrace(cap, i, p) ==
    Flatten([k \in DOMAIN typeGroups[i] |->
                IF cap \in Caps(typeGroups[i][k].cls)
                THEN GroupHandle(cap, i, i, typeGroups[i][k], p, {i})
                ELSE <<>>])

\* ------------------------------------------------------------ operations

\* Interface.emit_click(mpos).
EmitClick(i, p) ==
    /\ trace' = EmitTrace("click", i, p)
    /\ lastOp' = Op("emit_click", i, p)
    /\ UNCHANGED <<structure, loading, subgroups, overlay, underlayer, bindings, issued>>

\* Interface.emit_input(event).
EmitInput(i) ==
    /\ trace' = EmitTrace("input", i, 0)
    /\ lastOp' = Op("emit_input", i, 0)
    /\ UNCHANGED <<structure, loading, subgroups, overlay, underlayer, bindings, issued>>

\* Interface.handle_hover(), with the mouse at p.
HandleHover(i, p) ==
    /\ trace' = EmitTrace("hover", i, p)
    /\ lastOp' = Op("handle_hover", i, p)
    /\ UNCHANGED <<structure, loading, subgroups, overlay, underlayer, bindings, issued>>

\* What Interface.update(dt) leaves behind, followed by the events more.
Updated(i, nv, more, op) ==
    LET r == UpdateResult(i, nv)
    IN /\ components' = r.comps
       /\ bindings' = r.binds
       /\ issued' = CountFires(issued, r.events)
       /\ trace' = r.events \o more
       /\ lastOp' = Op(op, i, 0)
       /\ UNCHANGED <<loading, display, bgImage, typeGroups, group, subgroups,
                      overlay, underlayer>>

\* Interface.update(dt).
Update(i) == \E nv \in NewVals : Updated(i, nv, <<>>, "update")

\* Interface.draw(surface).
Draw(i) ==
    /\ trace' = DrawInterface(i, i)
    /\ lastOp' = Op("draw", i, 0)
    /\ UNCHANGED <<structure, loading, subgroups, overlay, underlayer, bindings, issued>>

\* A frame that draws before it resolves hover.
HandleDrawBeforeHover(i, p) ==
    \E nv \in NewVals :
        Updated(i, nv, DrawInterface(i, i) \o EmitTrace("hover", i, p), "handle")

\* Interface.handle(surface, dt), with the mouse at p: update, handle_hover,
\* draw.
Handle(i, p) ==
    \E nv \in NewVals :
        Updated(i, nv, EmitTrace("hover", i, p) \o DrawInterface(i, i), "handle")

\* Interface.add_subgroup(group).
AddSubgroup(i, g) ==
    /\ \/ g \in Range(subgroups[i])
       \/ \A j \in Names \ {i} :
             Len(subgroups[i]) + Len(subgroups[j]) < MaxSubgroups
    /\ subgroups' = [subgroups EXCEPT ![i] =
                        IF g \in Range(@) THEN @ ELSE Append(@, g)]
    /\ trace' = <<>>
    /\ lastOp' = Op("setup", "", 0)
    /\ UNCHANGED <<structure, loading, overlay, underlayer, bindings, issued>>

\* Design document, 4.4: register(binding) keeps the binding, under a fresh
\* id, after the bindings registered before it.  call is what the caller
\* asked for.
Register(i, b, call) ==
    /\ Len(issued) < MaxRegistrations
    /\ bindings' = [bindings EXCEPT ![i] = Append(@, b)]
    /\ issued' = Append(issued, call)
    /\ trace' = <<>>
    /\ lastOp' = Op("setup", "", 0)
    /\ UNCHANGED <<structure, loading, subgroups, overlay, underlayer>>

Call(i, kind, c1, c2, keep) ==
    [iface |-> i, kind |-> kind, c1 |-> c1, c2 |-> c2, keep |-> keep, fires |-> 0]

\* A create_binding that binds the second component to the first.
CreateBindingReversed(i) ==
    \/ \E c1, c2 \in DOMAIN components[i] :
          /\ c1 # c2
          /\ Register(i, Binding(NextId, "component", c2, c1, 0, 0, TRUE),
                      Call(i, "component", c1, c2, TRUE))
    \/ \E c1 \in DOMAIN components[i] :
          Register(i, Binding(NextId, "callback", 0, c1, 1, 0, TRUE),
                   Call(i, "callback", c1, 0, TRUE))

\* Interface.create_binding(c1, a1, c2, a2) with a component c2, and
\* create_binding(c1, a1, callback) with a callback that returns 1.
CreateBinding(i) ==
    \/ \E c1, c2 \in DOMAIN components[i] :
          /\ c1 # c2
          /\ Register(i, Binding(NextId, "component", c1, c2, 0, 0, TRUE),
                      Call(i, "component", c1, c2, TRUE))
    \/ \E c1 \in DOMAIN components[i] :
          Register(i, Binding(NextId, "callback", 0, c1, 1, 0, TRUE),
                   Call(i, "callback", c1, 0, TRUE))

\* The conditions the application watches: a moving component holds 1.
Watched(i) == {k \in DOMAIN components[i] : components[i][k].upd}

\* A when that keeps every binding.
WhenAlwaysKeep(i) ==
    \E k \in Watched(i), keep \in BOOLEAN :
        Register(i, Binding(NextId, "condition", 0, 0, 0, k, TRUE),
                 Call(i, "condition", k, 0, keep))

\* Interface.when(condition, callback, keep=keep), the condition being that
\* component k holds 1.
When(i) ==
    \E k \in Watched(i), keep \in BOOLEAN :
        Register(i, Binding(NextId, "condition", 0, 0, 0, k, keep),
                 Call(i, "condition", k, 0, keep))

\* An unbind that drops every binding registered up to the id.
UnbindUpTo(i, id) ==
    /\ bindings' = [bindings EXCEPT ![i] = SelectSeq(@, LAMBDA b : b.id > id)]
    /\ trace' = <<>>
    /\ lastOp' = Op("unbind", i, id)
    /\ UNCHANGED <<structure, loading, subgroups, overlay, underlayer, issued>>

\* Interface.unbind(id_).
Unbind(i, id) ==
    /\ bindings' = [bindings EXCEPT ![i] = Unregister(@, id)]
    /\ trace' = <<>>
    /\ lastOp' = Op("unbind", i, id)
    /\ UNCHANGED <<structure, loading, subgroups, overlay, underlayer, issued>>

\* The application assigns v to the attribute of component k of interface
\* i, between two frames.
Mutate(i, k, v) ==
    /\ components[i][k].val # v
    /\ components' = [components EXCEPT ![i][k].val = v]
    /\ trace' = <<>>
    /\ lastOp' = Op("setup", "", 0)
    /\ UNCHANGED <<loading, display, bgImage, typeGroups, group, subgroups, overlay,
                   underlayer, bindings, issued>>

\* Interface j can be nested in interface i: neither is nested already, and
\* j nests nothing itself.
Nestable(i, j) ==
    /\ i # j
    /\ overlay[j] = <<>> /\ underlayer[j] = <<>>
    /\ \A h \in Names : i \notin Range(overlay[h]) \cup Range(underlayer[h])

\* Design document, 2 (Overlay Manager): interface j becomes a target of
\* the overlay of interface i (Interface.overlay is the manager).
AddOverlayTarget(i, j) ==
    /\ Nestable(i, j)
    /\ j \notin Range(overlay[i])
    /\ overlay' = [overlay EXCEPT ![i] = Append(@, j)]
    /\ trace' = <<>>
    /\ lastOp' = Op("setup", "", 0)
    /\ UNCHANGED <<structure, loading, subgroups, underlayer, bindings, issued>>

\* Design document, 2 (Overlay Manager): interface j becomes a target of
\* the underlayer of interface i (Interface.underlayer is the manager).
AddUnderlayerTarget(i, j) ==
    /\ Nestable(i, j)
    /\ j \notin Range(underlayer[i])
    /\ underlayer' = [underlayer EXCEPT ![i] = Append(@, j)]
    /\ trace' = <<>>
    /\ lastOp' = Op("setup", "", 0)
    /\ UNCHANGED <<structure, loading, subgroups, overlay, bindings, issued>>

\* ------------------------------------------------- loading and unloading

\* Interface.__init__, line 52: the colour (0, 0, 0, 0).
DefaultColor == "transparent"

\* The backgrounds of a definition: a file that loads as an image, the names
\* of colours, and None.
ImageFile == "bg.png"
Colors == {"red", "blue"}
NoBackground == "None"

\* _parse_background(bg) on bg == [image, color], the state of _bg_image
\* (whether it is set) and _bg_color.
ParseBackground(b, bg) ==
    IF bg = ImageFile THEN [image |-> TRUE, color |-> b.color]
    ELSE IF bg # NoBackground THEN [image |-> b.image, color |-> bg]
         ELSE b

\* Interface.background, the getter.
Background(i) == IF bgImage[i] THEN ImageFile ELSE bgColor[i]

\* The definition of an interface, as the loader hands it to Interface().
Definition(disp, size, rows, columns, styles, background, recs) ==
    [display |-> disp, size |-> size, rows |-> rows, columns |-> columns,
     styles |-> styles, background |-> background, components |-> recs]

\* Interface.__init__(name, **definition): err when the construction raises.
Construct(name, def) ==
    LET b == ParseBackground([image |-> FALSE, color |-> DefaultColor],
                             def.background)
        cell == GridCellSize(def.display, def.size, def.rows, def.columns)
        st == LoadComponents(name, def, cell,
                             [err |-> cell.err, components |-> <<>>,
                              typeGroups |-> <<>>, group |-> <<>>,
                              resolved |-> <<>>],
                             def.components)
    IN [err |-> st.err, components |-> st.components,
        typeGroups |-> st.typeGroups, group |-> st.group,
        resolved |-> st.resolved, image |-> b.image, color |-> b.color]

\* The application constructs interface i from its definition; nothing is
\* kept of a construction that raises.
Load(i) ==
    LET r == Construct(i, definition[i])
    IN /\ i \notin loaded
       /\ trace' = <<>>
       /\ IF r.err
          THEN /\ lastOp' = Op("load_error", i, 0)
               /\ UNCHANGED <<structure, loading, subgroups, overlay,
                              underlayer, bindings, issued>>
          ELSE /\ lastOp' = Op("load", i, 0)
               /\ loaded' = loaded \cup {i}
               /\ display' = [display EXCEPT ![i] = definition[i].display]
               /\ components' = [components EXCEPT ![i] = r.components]
               /\ typeGroups' = [typeGroups EXCEPT ![i] = r.typeGroups]
               /\ group' = [group EXCEPT ![i] = r.group]
               /\ resolved' = [resolved EXCEPT ![i] = r.resolved]
               /\ bgImage' = [bgImage EXCEPT ![i] = r.image]
               /\ bgColor' = [bgColor EXCEPT ![i] = r.color]
               /\ bgValue' = [bgValue EXCEPT ![i] = definition[i].background]
               /\ UNCHANGED <<definition, subgroups, overlay, underlayer,
                              bindings, issued>>

\* An unload that leaves the bindings registered.
UnloadKeepingBindings(i) ==
    /\ i \in loaded
    /\ loaded' = loaded \ {i}
    /\ display' = [display EXCEPT ![i] = "unloaded"]
    /\ components' = [components EXCEPT ![i] = <<>>]
    /\ typeGroups' = [typeGroups EXCEPT ![i] = <<>>]
    /\ group' = [group EXCEPT ![i] = <<>>]
    /\ subgroups' = [subgroups EXCEPT ![i] = <<>>]
    /\ overlay' = [overlay EXCEPT ![i] = <<>>]
    /\ underlayer' = [underlayer EXCEPT ![i] = <<>>]
    /\ resolved' = [resolved EXCEPT ![i] = <<>>]
    /\ bgImage' = [bgImage EXCEPT ![i] = FALSE]
    /\ bgColor' = [bgColor EXCEPT ![i] = DefaultColor]
    /\ bgValue' = [bgValue EXCEPT ![i] = NoBackground]
    /\ trace' = <<>>
    /\ lastOp' = Op("unload", i, 0)
    /\ UNCHANGED <<definition, bindings, issued>>

\* Design document, 3 and 8: unloading interface i destroys its components,
\* empties every group they were in and clears its bindings.
Unload(i) ==
    /\ i \in loaded
    /\ loaded' = loaded \ {i}
    /\ display' = [display EXCEPT ![i] = "unloaded"]
    /\ components' = [components EXCEPT ![i] = <<>>]
    /\ typeGroups' = [typeGroups EXCEPT ![i] = <<>>]
    /\ group' = [group EXCEPT ![i] = <<>>]
    /\ subgroups' = [subgroups EXCEPT ![i] = <<>>]
    /\ overlay' = [overlay EXCEPT ![i] = <<>>]
    /\ underlayer' = [underlayer EXCEPT ![i] = <<>>]
    /\ bindings' = [bindings EXCEPT ![i] = <<>>]
    /\ resolved' = [resolved EXCEPT ![i] = <<>>]
    /\ bgImage' = [bgImage EXCEPT ![i] = FALSE]
    /\ bgColor' = [bgColor EXCEPT ![i] = DefaultColor]
    /\ bgValue' = [bgValue EXCEPT ![i] = NoBackground]
    /\ trace' = <<>>
    /\ lastOp' = Op("unload", i, 0)
    /\ UNCHANGED <<definition, issued>>

\* interface.background = bg, the setter.
SetBackground(i, bg) ==
    LET b == ParseBackground([image |-> bgImage[i], color |-> bgColor[i]], bg)
    IN /\ i \in loaded
       /\ bgImage' = [bgImage EXCEPT ![i] = b.image]
       /\ bgColor' = [bgColor EXCEPT ![i] = b.color]
       /\ bgValue' = [bgValue EXCEPT ![i] = bg]
       /\ trace' = <<>>
       /\ lastOp' = Op("background", i, 0)
       /\ UNCHANGED <<display, components, typeGroups, group, loaded,
                      definition, resolved, subgroups, overlay, underlayer,
                      bindings, issued>>

\* A mapping that keeps the components without id under the key "_".
ComponentMappingWithSentinel(i) ==
    [id \in {components[i][k].id : k \in DOMAIN components[i]} |->
        CHOOSE k \in DOMAIN components[i] :
            /\ components[i][k].id = id
            /\ \A m \in DOMAIN components[i] :
                  components[i][m].id = id => m <= k]

\* Interface.component_mapping: the dictionary {c.id: c} over the components
\* whose id is not "_", a later component replacing an earlier one of the
\* same id.  A component is named by its place in _components.
ComponentMapping(i) ==
    [id \in {components[i][k].id : k \in DOMAIN components[i]} \ {"_"} |->
        CHOOSE k \in DOMAIN components[i] :
            /\ components[i][k].id = id
            /\ \A m \in DOMAIN components[i] :
                  components[i][m].id = id => m <= k]

\* list.index(x) over _components of interface i: the position, counted from
\* 0, of the first component that is x, and a ValueError when there is none.
\* x is a component object, named by its interface and its place there; a
\* sprite equals nothing but itself.
ListIndex(i, x) ==
    LET hits == {m \in DOMAIN components[i] : x = [iface |-> i, idx |-> m]}
    IN IF hits = {} THEN [raised |-> TRUE, idx |-> -1]
       ELSE [raised |-> FALSE,
             idx |-> (CHOOSE m \in hits : \A n \in hits : m <= n) - 1]

\* What interface[x] gives the caller: the component at a place of
\* _components, None, or the exception that leaves __getitem__.
Returned(at) == [kind |-> "component", at |-> at]
ReturnedNone == [kind |-> "None", at |-> 0]
Raised(error) == [kind |-> error, at |-> 0]

\* Interface.__getitem__(component).
GetItemResult(i, x) ==
    LET r == ListIndex(i, x)
    IN IF r.raised THEN Raised("ValueError")
       ELSE IF r.idx # -1 THEN Returned(r.idx + 1)
            ELSE ReturnedNone

\* interface[x], for a component x of any interface.
GetItem(i, x) ==
    /\ i \in loaded
    /\ x.iface \in loaded
    /\ x.idx \in DOMAIN components[x.iface]
    /\ trace' = <<>>
    /\ lastOp' = Op("getitem", i, [asked |-> x, result |-> GetItemResult(i, x)])
    /\ UNCHANGED <<structure, loading, subgroups, overlay, underlayer,
                   bindings, issued>>

\* ------------------------------------------------------------ the inputs

\* A component record of an interface definition.  A record may leave "id"
\* out.
Record(type, rect, declines, upd) ==
    [type |-> type, rect |-> rect, declines |-> declines, upd |-> upd, val |-> 0]

WithId(rec, id) ==
    [k \in DOMAIN rec \cup {"id"} |-> IF k = "id" THEN id ELSE rec[k]]

\* Records of clickable, hoverable, input and plain components, overlapping
\* at point 1 or at both points.
DispatchRecords ==
    {Record("button", r, d, FALSE) : r \in {{1}, {1, 2}}, d \in BOOLEAN}
    \cup {WithId(Record("link", {1, 2}, FALSE, FALSE), "a"),
          Record("input", {1, 2}, FALSE, FALSE),
          Record("tooltip", {2}, FALSE, FALSE),
          Record("text", {1, 2}, FALSE, FALSE)}

Lists(S, n) == UNION {[1..k -> S] : k \in 0..n}

\* The component lists of the interfaces: at most MaxComponents records over
\* all of them.
Definitions(S) ==
    {d \in [Names -> Lists(S, MaxComponents)] :
        \A i, j \in Names : i # j => Len(d[i]) + Len(d[j]) <= MaxComponents}

\* The size of the screen, and of every interface.
ScreenSize == <<200, 10>>

NoStyles == [some |-> FALSE, classes |-> <<>>]

\* A definition without grid and without style classes.
SimpleDefinition(disp, img, recs) ==
    Definition(disp, ScreenSize, None, None, NoStyles,
               IF img THEN ImageFile ELSE NoBackground, recs)

\* The state after every interface has been constructed from its definition.
Constructed(defs, disp, img) ==
    /\ display = disp
    /\ bgImage = img
    /\ components = [i \in Names |-> NewInterface(i, defs[i]).components]
    /\ typeGroups = [i \in Names |-> NewInterface(i, defs[i]).typeGroups]
    /\ group = [i \in Names |-> NewInterface(i, defs[i]).group]
    /\ subgroups = [i \in Names |-> <<>>]
    /\ overlay = [i \in Names |-> <<>>]
    /\ underlayer = [i \in Names |-> <<>>]
    /\ bindings = [i \in Names |-> <<>>]
    /\ loaded = Names
    /\ definition = [i \in Names |-> SimpleDefinition(disp[i], img[i], defs[i])]
    /\ resolved = [i \in Names |->
                     Construct(i, SimpleDefinition(disp[i], img[i], defs[i])).resolved]
    /\ bgColor = [i \in Names |-> DefaultColor]
    /\ bgValue = [i \in Names |-> IF img[i] THEN ImageFile ELSE NoBackground]
    /\ issued = <<>>
    /\ trace = <<>>
    /\ lastOp = Op("init", "", 0)

DefaultDisplays == [i \in Names |-> IF i = "A" THEN "default" ELSE "overlay"]

Init ==
    \E defs \in Definitions(DispatchRecords) :
        Constructed(defs, DefaultDisplays, [i \in Names |-> FALSE])

Next ==
    \E i \in Names :
        \/ \E p \in Points : EmitClick(i, p)
        \/ EmitInput(i)
        \/ \E p \in Points : HandleHover(i, p)
        \/ Update(i)
        \/ Draw(i)
        \/ \E p \in Points : Handle(i, p)

Spec == Init /\ [][Next]_vars

\* The record of a hoverable component.
FrameRecords == {Record("button", {1, 2}, FALSE, FALSE)}

\* Interfaces with and without a background image, through frames, with
\* subgroups and nested interfaces.
InitFrame ==
    \E defs \in Definitions(FrameRecords) :
        \E img \in [Names -> BOOLEAN] :
            Constructed(defs, DefaultDisplays, img)

NextFrame ==
    \E i \in Names :
        \/ Update(i)
        \/ Draw(i)
        \/ \E p \in Points : Handle(i, p)
        \/ \E g \in ExtGroups : AddSubgroup(i, g)
        \/ \E j \in Names : AddOverlayTarget(i, j)
        \/ \E j \in Names : AddUnderlayerTarget(i, j)

SpecFrame == InitFrame /\ [][NextFrame]_vars

\* A screen with a moving component and a label, and an empty overlay.
BindDefinitions ==
    {[i \in Names |->
        IF i = "A" THEN <<Record("paddle", {1}, FALSE, TRUE), r>> ELSE <<>>] :
     r \in {Record("text", {1}, FALSE, FALSE)}}

InitBind ==
    \E defs \in BindDefinitions :
        Constructed(defs, DefaultDisplays, [i \in Names |-> FALSE])

NextBind ==
    \E i \in Names :
        \/ CreateBinding(i)
        \/ When(i)
        \/ \E id \in 1..MaxRegistrations : Unbind(i, id)
        \/ Update(i)
        \/ \E k \in DOMAIN components[i], v \in Values : Mutate(i, k, v)

SpecBind == InitBind /\ [][NextBind]_vars

\* The state before any interface is constructed, with the definitions
\* the loader has read.
Unloaded(defs) ==
    /\ display = [i \in Names |-> "unloaded"]
    /\ bgImage = [i \in Names |-> FALSE]
    /\ components = [i \in Names |-> <<>>]
    /\ typeGroups = [i \in Names |-> <<>>]
    /\ group = [i \in Names |-> <<>>]
    /\ subgroups = [i \in Names |-> <<>>]
    /\ overlay = [i \in Names |-> <<>>]
    /\ underlayer = [i \in Names |-> <<>>]
    /\ bindings = [i \in Names |-> <<>>]
    /\ loaded = {}
    /\ definition = defs
    /\ resolved = [i \in Names |-> <<>>]
    /\ bgColor = [i \in Names |-> DefaultColor]
    /\ bgValue = [i \in Names |-> NoBackground]
    /\ issued = <<>>
    /\ trace = <<>>
    /\ lastOp = Op("init", "", 0)

\* The names of style classes: "s", "t", "u" and "st".
ClassS == <<"s">>
ClassT == <<"t">>
ClassU == <<"u">>
ClassST == <<"s", "t">>

\* The style classes of an interface: none, or classes "s" and "t", or
\* classes "t" and "st".
StyleTables ==
    {NoStyles,
     [some |-> TRUE,
      classes |-> (ClassS :> [width |-> Px(40), color |-> "red"])
                  @@ (ClassT :> [color |-> "blue", height |-> Pct(50)])],
     [some |-> TRUE,
      classes |-> (ClassT :> [grid_cell |-> 1, width |-> Pct(50)])
                  @@ (ClassST :> [color |-> "red"])]}

PlainRecord == Record("text", {1}, FALSE, FALSE)

\* Records with and without id, percentages, grid cells and style classes.
LoadRecords ==
    {PlainRecord,
     WithId(PlainRecord, "a"),
     Put(Put(PlainRecord, "width", Pct(50)), "height", Pct(66)),
     Put(Put(Put(PlainRecord, "x", Pct(66)), "y", Px(7)), "width", Px(30)),
     Put(PlainRecord, "grid_cell", 4),
     Put(Put(Put(Put(PlainRecord, "grid_cell", 4), "width", Auto),
             "height", Pct(50)), "x", Px(7)),
     WithId(Put(Put(PlainRecord, "grid_cell", 1), "width", Pct(66)), "a"),
     Put(Put(PlainRecord, "style", StyleName(ClassS)), "width", Px(30)),
     Put(PlainRecord, "style", StyleList(<<ClassS, ClassT>>)),
     Put(Put(PlainRecord, "style", StyleList(<<ClassU, ClassT, ClassS>>)),
         "color", "green"),
     Put(PlainRecord, "style", StyleName(ClassST)),
     Put(PlainRecord, "style", StyleList(<<>>))}

\* display, rows and columns of a definition.
Layouts ==
    {<<"default", None, None>>, <<"overlay", Some(2), Some(3)>>,
     <<"grid", Some(2), Some(3)>>, <<"grid", Some(2), None>>}

\* Interface A with any layout, style classes and records; B an empty
\* overlay.
LoadDefinitions ==
    {[i \in Names |->
        IF i = "A"
        THEN Definition(l[1], ScreenSize, l[2], l[3], st, NoBackground, recs)
        ELSE SimpleDefinition("overlay", FALSE, <<>>)] :
     l \in Layouts, st \in StyleTables, recs \in Lists(LoadRecords, MaxComponents)}

InitLoad == \E defs \in LoadDefinitions : Unloaded(defs)

NextLoad == \E i \in Names : Load(i)

SpecLoad == InitLoad /\ [][NextLoad]_vars

\* The screen of SpecBind, with bindings, unloaded and loaded again.
NextUnload ==
    \E i \in Names :
        \/ CreateBinding(i)
        \/ When(i)
        \/ Unload(i)
        \/ Load(i)

SpecUnload == InitBind /\ [][NextUnload]_vars

\* Two interfaces with one label each and any background.
BackgroundDefinitions ==
    {[i \in Names |->
        Definition(DefaultDisplays[i], ScreenSize, None, None, NoStyles, bg[i],
                   <<PlainRecord>>)] :
     bg \in [Names -> {ImageFile, NoBackground} \cup Colors]}

InitBackground == \E defs \in BackgroundDefinitions : Unloaded(defs)

NextBackground ==
    \E i \in Names :
        \/ Load(i)
        \/ \E bg \in {ImageFile} \cup Colors : SetBackground(i, bg)
        \/ i \in loaded /\ Draw(i)

SpecBackground == InitBackground /\ [][NextBackground]_vars

\* The screens of Spec, with lookups of their components in either
\* interface.
NextLookup ==
    \E i, j \in Names :
        \E k \in 1..MaxComponents : GetItem(i, [iface |-> j, idx |-> k])

SpecLookup == Init /\ [][NextLookup]_vars

\* ================================================================ claims

IsOp(op) == lastOp.op = op

\* The components the last operation delivered event ev to.
Received(ev) ==
    {<<trace[n].iface, trace[n].idx>> : n \in {m \in DOMAIN trace : trace[m].ev = ev}}

\* How often the last operation asked the group of type grp of interface i
\* to handle cap.
Asked(cap, i, grp) ==
    Cardinality({n \in DOMAIN trace :
        /\ trace[n].ev = "ask_" \o cap
        /\ trace[n].iface = i
        /\ trace[n].grp = grp})

GroupsOf(i, k) ==
    {n \in DOMAIN typeGroups[i] : k \in Range(typeGroups[i][n].members)}

\* C1: every component of _components is in exactly one type group, the one
\* keyed by its type, and in the main group; no group holds anything that is
\* not in _components.
C1_GroupMembership ==
    \A i \in Names :
        /\ \A k \in DOMAIN components[i] :
              /\ Cardinality(GroupsOf(i, k)) = 1
              /\ \A n \in GroupsOf(i, k) :
                    typeGroups[i][n].type = components[i][k].type
              /\ Cardinality({m \in DOMAIN group[i] : group[i][m] = k}) = 1
        /\ \A n \in DOMAIN typeGroups[i] :
              Range(typeGroups[i][n].members) \subseteq DOMAIN components[i]
        /\ Range(group[i]) \subseteq DOMAIN components[i]
        /\ \A n, m \in DOMAIN typeGroups[i] :
              typeGroups[i][n].type = typeGroups[i][m].type => n = m

\* An interface with two components of one type has been through a frame.
C1_Witness ==
    /\ IsOp("handle")
    /\ Len(components[lastOp.iface]) = 2
    /\ components[lastOp.iface][1].type = components[lastOp.iface][2].type

Routing == {"emit_click", "emit_input", "handle_hover"}

\* C4: a click, an input or a hover emitted on an interface is dispatched
\* with the filter made of that interface's name alone, to that interface's
\* own type groups, and reaches no component owned by another interface.
C4_OwnInterfaceOnly ==
    lastOp.op \in Routing =>
        \A n \in DOMAIN trace :
            /\ trace[n].via = lastOp.iface
            /\ trace[n].iface = lastOp.iface
            /\ trace[n].idx # 0 =>
                  components[trace[n].iface][trace[n].idx].interface = lastOp.iface
            /\ trace[n].idx = 0 => trace[n].filter = {lastOp.iface}

\* A click on one interface was delivered while the other interface holds a
\* component under the same point.
C4_Witness ==
    /\ IsOp("emit_click")
    /\ Received("click") # {}
    /\ \E j \in Names \ {lastOp.iface} :
          \E k \in DOMAIN components[j] :
              /\ lastOp.arg \in components[j][k].rect
              /\ SubtypeOf(components[j][k].type) = "clickable"

CapOf(op) ==
    CASE op = "emit_click" -> "click"
      [] op = "emit_input" -> "input"
      [] op = "handle_hover" -> "hover"

\* C5: emit_click, emit_input and handle_hover ask exactly the type groups of
\* the interface that have the capability, each once, and no event reaches a
\* member of a group without it.
C5_RoutedByCapability ==
    lastOp.op \in Routing =>
        LET i == lastOp.iface
            cap == CapOf(lastOp.op)
        IN /\ \A n \in DOMAIN typeGroups[i] :
                 Asked(cap, i, typeGroups[i][n].type) =
                    IF cap \in Caps(typeGroups[i][n].cls) THEN 1 ELSE 0
           /\ \A n \in DOMAIN trace :
                 /\ trace[n].idx = 0 => trace[n].ev = "ask_" \o cap
                 /\ trace[n].idx # 0 =>
                       \E g \in GroupsOf(i, trace[n].idx) :
                          cap \in Caps(typeGroups[i][g].cls)

\* An input event was emitted on an interface that has an input group and a
\* clickable group.
C5_Witness ==
    /\ IsOp("emit_input")
    /\ \E n, m \in DOMAIN typeGroups[lastOp.iface] :
          /\ "input" \in Caps(typeGroups[lastOp.iface][n].cls)
          /\ "click" \in Caps(typeGroups[lastOp.iface][m].cls)
    /\ Received("input") # {}

\* The components of interface i that sit in a clickable group and whose
\* bounds hold the point p.
ClickableAt(i, p) ==
    {k \in DOMAIN components[i] :
        /\ p \in components[i][k].rect
        /\ \E n \in GroupsOf(i, k) : "click" \in Caps(typeGroups[i][n].cls)}

\* C10: of two overlapping clickable components under a click,
\* only the later inserted one receives it, unless it declines.
C10_OnlyTopmostReceives ==
    IsOp("emit_click") =>
        LET i == lastOp.iface
        IN \A k1, k2 \in ClickableAt(i, lastOp.arg) :
              (k1 < k2 /\ ~components[i][k2].declines) =>
                  /\ <<i, k2>> \in Received("click")
                  /\ <<i, k1>> \notin Received("click")

\* The events of the last operation that belong to the frame of interface
\* i itself, not to an interface nested in it.
OwnEvents(i) == SelectSeq(trace, LAMBDA e : e.iface = i)

UpdateEvents == {"update"}
BindingEvents == {"bindings", "copy", "condition", "callback"}
HoverEvents == {"ask_hover", "hover"}
DrawEvents == {"background", "underlayer", "draw", "overlay"}

Phase(e) ==
    CASE e.ev \in UpdateEvents -> 1
      [] e.ev \in BindingEvents -> 2
      [] e.ev \in HoverEvents -> 3
      [] e.ev \in DrawEvents -> 4

\* C2: in a frame run by handle, the interface's components are updated
\* (main group, then subgroups) before its bindings are evaluated, the
\* bindings before hover is resolved, and hover before anything is drawn.
C2_FrameOrder ==
    IsOp("handle") =>
        LET es == OwnEvents(lastOp.iface)
        IN /\ \A n, m \in DOMAIN es : n < m => Phase(es[n]) <= Phase(es[m])
           /\ es # <<>> /\ es[1] = Ev("update", lastOp.iface, lastOp.iface, "main", 0, 0)
           /\ \E n \in DOMAIN es : es[n].ev = "bindings"
           /\ \E n \in DOMAIN es : es[n].ev = "draw"

\* A frame of an interface with a subgroup and a hoverable component.
C2_Witness ==
    /\ IsOp("handle")
    /\ subgroups[lastOp.iface] # <<>>
    /\ \E n \in DOMAIN trace : trace[n].ev = "hover" /\ trace[n].iface = lastOp.iface
    /\ \E n \in DOMAIN trace : trace[n].ev = "update" /\ trace[n].iface # lastOp.iface

\* The layers interface i itself rendered in the last operation.
Layers(i) ==
    LET es == SelectSeq(trace, LAMBDA e : e.iface = i /\ e.ev \in DrawEvents)
    IN [n \in DOMAIN es |-> <<es[n].ev, es[n].grp>>]

GroupLayers(i) ==
    <<<<"draw", "main">>>> \o [n \in DOMAIN subgroups[i] |-> <<"draw", subgroups[i][n]>>]

\* C3, as stated: every draw renders the background (a blit of the image or
\* a fill with the colour), the underlayer, the groups (main, then the
\* subgroups as added) and the top overlay, in this order.
C3_BackgroundAlwaysFirst ==
    lastOp.op \in {"draw", "handle"} =>
        Layers(lastOp.iface) =
            <<<<"background", IF bgImage[lastOp.iface] THEN "blit" ELSE "fill">>,
              <<"underlayer", "">>>>
            \o GroupLayers(lastOp.iface) \o <<<<"overlay", "">>>>

\* C3, amended: the same order, with no background rendered by an interface
\* of display "overlay" that has no background image.
C3_LayerOrder ==
    lastOp.op \in {"draw", "handle"} =>
        LET i == lastOp.iface
        IN Layers(i) =
            (IF bgImage[i] THEN <<<<"background", "blit">>>>
             ELSE IF display[i] = "overlay" THEN <<>>
             ELSE <<<<"background", "fill">>>>)
            \o <<<<"underlayer", "">>>> \o GroupLayers(i) \o <<<<"overlay", "">>>>

\* An overlay interface without an image, with two subgroups, was drawn.
C3_Witness ==
    /\ IsOp("draw")
    /\ display[lastOp.iface] = "overlay"
    /\ ~bgImage[lastOp.iface]
    /\ Len(subgroups[lastOp.iface]) = 2

\* C6, as stated: an update advances the main group and every subgroup,
\* evaluates the bindings once, and updates every interface nested in the
\* overlay or in the underlayer.
C6_UpdateCascadesEverywhere ==
    IsOp("update") =>
        LET i == lastOp.iface
            ups(j) == {n \in DOMAIN trace :
                         trace[n].ev = "update" /\ trace[n].iface = j}
        IN /\ Cardinality(ups(i)) = 1 + Len(subgroups[i])
           /\ Cardinality({n \in DOMAIN trace :
                 trace[n].ev = "bindings" /\ trace[n].iface = i}) = 1
           /\ \A j \in Range(overlay[i]) \cup Range(underlayer[i]) : ups(j) # {}

\* Binding b assigns to the attribute of component k.
Writes(b, k) == b.kind \in {"component", "callback"} /\ b.dst = k

\* C7, as stated: after every frame, the target of a binding made by
\* create_binding(c1, a1, c2, a2) equals its source.
C7_TargetEqualsSource ==
    IsOp("update") =>
        \A n \in DOMAIN bindings[lastOp.iface] :
            LET b == bindings[lastOp.iface][n]
                cs == components[lastOp.iface]
            IN b.kind = "component" =>
                  cs[issued[b.id].c2].val = cs[issued[b.id].c1].val

\* C7, amended: a frame leaves the attribute of c2 equal to the attribute of
\* c1, and leaves c1 with the value it was given, for every binding made by
\* create_binding(c1, a1, c2, a2) such that no binding registered after it
\* assigns to either attribute.
C7_TargetFollowsSource ==
    [][lastOp'.op = "update" =>
          LET i == lastOp'.iface
              bs == bindings[i]
          IN \A n \in DOMAIN bs :
                LET c1 == issued[bs[n].id].c1
                    c2 == issued[bs[n].id].c2
                IN (/\ bs[n].kind = "component"
                    /\ \A m \in DOMAIN bs :
                          m > n => ~Writes(bs[m], c1) /\ ~Writes(bs[m], c2))
                   => /\ components'[i][c2].val = components'[i][c1].val
                      /\ (/\ ~components[i][c1].upd
                          /\ \A m \in DOMAIN bs : m # n => ~Writes(bs[m], c1))
                         => components'[i][c1].val = components[i][c1].val
      ]_vars

\* The only binding of an interface copies a label that the application
\* set to 1, and a frame has run.
C7_Witness ==
    /\ IsOp("update")
    /\ Len(bindings[lastOp.iface]) = 1
    /\ LET b == bindings[lastOp.iface][1]
           cs == components[lastOp.iface]
       IN /\ b.kind = "component"
          /\ ~cs[issued[b.id].c1].upd
          /\ cs[issued[b.id].c1].val = 1
          /\ cs[issued[b.id].c2].val = 1

\* C8: in a frame, a registered condition binding calls its callback once if
\* its condition is met and not otherwise; it stays registered if it was
\* made with keep=True or did not fire, and is deregistered if it fired and
\* was made with keep=False, so that it fires at most once in all; a binding
\* that is not registered does not fire.
C8_ConditionFires ==
    [][lastOp'.op = "update" =>
          LET i == lastOp'.iface
              bs == bindings[i]
              fired(id) == {n \in DOMAIN trace' :
                              trace'[n].ev = "callback" /\ trace'[n].idx = id}
          IN /\ \A n \in DOMAIN bs :
                   LET id == bs[n].id
                       call == issued[id]
                   IN bs[n].kind = "condition" =>
                        /\ Cardinality(fired(id)) <= 1
                        /\ (\A m \in DOMAIN bs : ~Writes(bs[m], call.c1))
                              => (fired(id) # {} <=> components'[i][call.c1].val = 1)
                        /\ (\E m \in DOMAIN bindings'[i] : bindings'[i][m].id = id)
                              <=> (call.keep \/ fired(id) = {})
                        /\ ~call.keep => issued'[id].fires <= 1
             /\ \A id \in DOMAIN issued :
                   (\A n \in DOMAIN bs : bs[n].id # id) => fired(id) = {}
      ]_vars

\* A frame has run with the condition of a binding made with keep=False
\* still true after the binding fired: nothing fired in this frame.
C8_Witness ==
    /\ IsOp("update")
    /\ \E id \in DOMAIN issued :
          /\ issued[id].kind = "condition"
          /\ ~issued[id].keep
          /\ issued[id].fires = 1
          /\ components[issued[id].iface][issued[id].c1].val = 1
    /\ \A n \in DOMAIN trace : trace[n].ev # "callback"

\* C9: unbind(id) removes the binding of that id from the interface's
\* registry if it is there, keeps every other binding in its place, and
\* changes nothing when the id is not registered.
C9_UnbindRemovesOnlyThat ==
    [][lastOp'.op = "unbind" =>
          LET i == lastOp'.iface
              id == lastOp'.arg
              before == bindings[i]
              after == bindings'[i]
          IN /\ \A n \in DOMAIN after : after[n].id # id
             /\ \A n \in DOMAIN before :
                   before[n].id # id => \E m \in DOMAIN after : after[m] = before[n]
             /\ \A n \in DOMAIN after : \E m \in DOMAIN before : before[m] = after[n]
             /\ \A n, m \in DOMAIN after : n < m => after[n].id < after[m].id
             /\ (\A n \in DOMAIN before : before[n].id # id) => after = before
             /\ \A j \in Names \ {i} : bindings'[j] = bindings[j]
             /\ components' = components
      ]_vars

\* unbind was called with the id of a binding that had fired and gone,
\* while another binding was registered.
C9_Witness ==
    /\ IsOp("unbind")
    /\ lastOp.arg \in DOMAIN issued
    /\ issued[lastOp.arg].iface = lastOp.iface
    /\ issued[lastOp.arg].fires = 1
    /\ bindings[lastOp.iface] # <<>>

\* Record k of the definition of interface i, the record after the style
\* merge, the grid cell of the interface and the record after the
\* percentage stage.
DefRecord(i, k) == definition[i].components[k]
Merged(i, k) == ParseStyleClasses(definition[i].styles, DefRecord(i, k))
CellOf(i) ==
    GridCellSize(definition[i].display, definition[i].size,
                 definition[i].rows, definition[i].columns)
Sized(i, k) ==
    ParsePercentageValues(definition[i].size, Merged(i, k),
                          CellOf(i).gw, CellOf(i).gh).c

\* The interfaces without an Interface object hold nothing.
Empty(i) ==
    /\ components[i] = <<>>
    /\ group[i] = <<>>
    /\ \A n \in DOMAIN typeGroups[i] : typeGroups[i][n].members = <<>>
    /\ bindings[i] = <<>>

\* C11: after an interface is unloaded none of its components, none of its
\* group memberships and none of its bindings is left.
C11_UnloadLeavesNothing ==
    IsOp("unload") =>
        /\ lastOp.iface \notin loaded
        /\ \A i \in Names \ loaded : Empty(i)

\* An interface with components and a registered binding was unloaded while
\* the other interface stayed loaded.
C11_Witness ==
    /\ IsOp("unload")
    /\ definition[lastOp.iface].components # <<>>
    /\ \E id \in DOMAIN issued : issued[id].iface = lastOp.iface
    /\ loaded # {}

\* C12: the style merge keeps the value of every attribute the record sets,
\* whatever classes the record lists, by one name or in a list; an attribute
\* the merge adds is the value some class of the interface gives it.
C12_ExplicitWins ==
    \A i \in Names :
        \A k \in DOMAIN definition[i].components :
            /\ \A a \in DOMAIN DefRecord(i, k) :
                  Merged(i, k)[a] = DefRecord(i, k)[a]
            /\ \A a \in DOMAIN Merged(i, k) \ DOMAIN DefRecord(i, k) :
                  /\ definition[i].styles.some
                  /\ \E n \in DOMAIN definition[i].styles.classes :
                        /\ a \in DOMAIN definition[i].styles.classes[n]
                        /\ definition[i].styles.classes[n][a] = Merged(i, k)[a]
            /\ (i \in loaded /\ "color" \in DOMAIN DefRecord(i, k))
                  => resolved[i][k]["color"] = DefRecord(i, k)["color"]

\* An interface was built with a record of class "s" that sets its own
\* width, class "s" giving another width and a colour.
C12_Witness ==
    /\ IsOp("load")
    /\ \E k \in DOMAIN resolved[lastOp.iface] :
          /\ "style" \in DOMAIN DefRecord(lastOp.iface, k)
          /\ DefRecord(lastOp.iface, k)["style"] = StyleName(ClassS)
          /\ definition[lastOp.iface].styles.some
          /\ ClassS \in DOMAIN definition[lastOp.iface].styles.classes
          /\ definition[lastOp.iface].styles.classes[ClassS]["width"] = Px(40)
          /\ resolved[lastOp.iface][k]["width"] = Px(30)
          /\ resolved[lastOp.iface][k]["color"] = "red"

\* The classes of the list of record k that are defined and give attribute
\* a, by their place in the list.
Giving(i, k, a) ==
    {n \in DOMAIN DefRecord(i, k)["style"].names :
        LET name == DefRecord(i, k)["style"].names[n]
        IN /\ name \in DOMAIN definition[i].styles.classes
           /\ a \in DOMAIN definition[i].styles.classes[name]}

ClassAttributes(i) ==
    UNION {DOMAIN definition[i].styles.classes[n] :
             n \in DOMAIN definition[i].styles.classes}

\* C13: for a record that lists its classes, an attribute the record does
\* not set takes the value of the first class of the list that is defined
\* and gives the attribute, and stays unset when no such class is listed.
C13_EarliestClassWins ==
    \A i \in Names :
        \A k \in DOMAIN definition[i].components :
            (/\ "style" \in DOMAIN DefRecord(i, k)
             /\ ~DefRecord(i, k)["style"].str
             /\ definition[i].styles.some)
            => \A a \in ClassAttributes(i) \ DOMAIN DefRecord(i, k) :
                  IF Giving(i, k, a) = {} THEN a \notin DOMAIN Merged(i, k)
                  ELSE LET first == CHOOSE n \in Giving(i, k, a) :
                                       \A m \in Giving(i, k, a) : n <= m
                           name == DefRecord(i, k)["style"].names[first]
                       IN /\ a \in DOMAIN Merged(i, k)
                          /\ Merged(i, k)[a] = definition[i].styles.classes[name][a]
                          /\ (i \in loaded /\ a = "color")
                                => resolved[i][k][a] = Merged(i, k)[a]

\* An interface was built with a record listing "s" and "t", which both give
\* a colour, and the record has the colour of "s".
C13_Witness ==
    /\ IsOp("load")
    /\ \E k \in DOMAIN resolved[lastOp.iface] :
          /\ "style" \in DOMAIN DefRecord(lastOp.iface, k)
          /\ DefRecord(lastOp.iface, k)["style"] = StyleList(<<ClassS, ClassT>>)
          /\ Cardinality(Giving(lastOp.iface, k, "color")) = 2
          /\ resolved[lastOp.iface][k]["color"] = "red"

Geometry == {"width", "height", "x", "y"}

GridPlaced(i, k) == "grid_cell" \in DOMAIN Merged(i, k)

\* The dimension a percentage of attribute a of record k is taken of: of the
\* grid cell for a record with a grid cell, of the interface otherwise; the
\* width for width and x, the height for height and y.
BaseOf(i, k, a) ==
    IF GridPlaced(i, k)
    THEN IF a \in {"width", "x"} THEN CellOf(i).gw.v ELSE CellOf(i).gh.v
    ELSE IF a \in {"width", "x"} THEN definition[i].size[1]
         ELSE definition[i].size[2]

\* The attributes of record k whose value the grid stage does not replace.
Kept(i, k) ==
    IF definition[i].display = "grid" /\ GridPlaced(i, k)
    THEN {a \in {"width", "height"} :
            a \in DOMAIN Merged(i, k) /\ Merged(i, k)[a] # Auto}
    ELSE Geometry \cap DOMAIN Merged(i, k)

\* round(n / d), d > 0, a half going to the even neighbour.
Round(n, d) ==
    LET q == n \div d
        r == n % d
    IN IF 2 * r < d THEN q
       ELSE IF 2 * r > d THEN q + 1
            ELSE IF q % 2 = 0 THEN q ELSE q + 1

\* C14: a percentage p% of a base b resolves to round(b * p / 100), and a
\* value that is not a percentage is left as it is.
C14_PercentageRounds ==
    \A i \in loaded :
        \A k \in DOMAIN resolved[i] :
            \A a \in Kept(i, k) :
                IF Merged(i, k)[a].t = "pct"
                THEN resolved[i][k][a] =
                        Px(Round(BaseOf(i, k, a) * Merged(i, k)[a].v, 100))
                ELSE resolved[i][k][a] = Merged(i, k)[a]

\* C15: the value a percentage resolves to is the percentage of the size of
\* the grid cell when the record has a grid cell and of the size of the
\* interface otherwise (less than one pixel away from it), in every display
\* mode in which the interface is built.
C15_PercentageBase ==
    \A i \in loaded :
        \A k \in DOMAIN resolved[i] :
            \A a \in Kept(i, k) :
                Merged(i, k)[a].t = "pct" =>
                    LET exact == BaseOf(i, k, a) * Merged(i, k)[a].v
                        px == resolved[i][k][a]
                    IN /\ px.t = "int"
                       /\ 100 * px.v > exact - 100
                       /\ 100 * px.v < exact + 100

\* A grid interface was built with a record in a cell whose height is a
\* percentage, and with the cell smaller than the interface.
C15_Witness ==
    /\ IsOp("load")
    /\ definition[lastOp.iface].display = "grid"
    /\ \E k \in DOMAIN resolved[lastOp.iface] :
          /\ GridPlaced(lastOp.iface, k)
          /\ "height" \in DOMAIN Merged(lastOp.iface, k)
          /\ Merged(lastOp.iface, k)["height"] = Pct(50)
          /\ CellOf(lastOp.iface).gh.v < definition[lastOp.iface].size[2]
          /\ resolved[lastOp.iface][k]["height"] = Px(2)

C17_GridSizing ==
    \A i \in loaded :
        \A k \in DOMAIN resolved[i] :
            (definition[i].display = "grid" /\ GridPlaced(i, k)) =>
                /\ \A a \in {"width", "height"} :
                      LET cell == IF a = "width" THEN CellOf(i).gw.v
                                  ELSE CellOf(i).gh.v
                      IN IF a \notin DOMAIN Merged(i, k)
                         THEN resolved[i][k][a] = Px(cell)
                         ELSE IF Merged(i, k)[a] = Auto
                              THEN resolved[i][k][a] = NoneValue
                              ELSE /\ resolved[i][k][a] = Sized(i, k)[a]
                                   /\ Merged(i, k)[a].t = "int"
                                         => resolved[i][k][a] = Merged(i, k)[a]
                /\ resolved[i][k]["size"] =
                      <<resolved[i][k]["width"], resolved[i][k]["height"]>>

\* A grid was built with a record in a cell whose width is "auto" and
\* whose height is a percentage, and with a record that sets neither.
C17_Witness ==
    /\ IsOp("load")
    /\ definition[lastOp.iface].display = "grid"
    /\ \E k \in DOMAIN resolved[lastOp.iface] :
          /\ GridPlaced(lastOp.iface, k)
          /\ "width" \in DOMAIN Merged(lastOp.iface, k)
          /\ Merged(lastOp.iface, k)["width"] = Auto
          /\ resolved[lastOp.iface][k]["width"] = NoneValue
          /\ resolved[lastOp.iface][k]["height"] = Px(2)
    /\ \E k \in DOMAIN resolved[lastOp.iface] :
          /\ GridPlaced(lastOp.iface, k)
          /\ "width" \notin DOMAIN Merged(lastOp.iface, k)
          /\ resolved[lastOp.iface][k]["width"] = Px(66)

\* C18: a record without "id" makes a component of id "_", of which an
\* interface may hold several; component_mapping has no key "_", has as
\* keys exactly the other ids of the interface, maps each to a component of
\* the interface with that id, and holds every component whose id is not
\* "_" and is its own.
C18_SentinelId ==
    \A i \in loaded :
        /\ \A k \in DOMAIN components[i] :
              "id" \notin DOMAIN Merged(i, k) => components[i][k].id = "_"
        /\ "_" \notin DOMAIN ComponentMapping(i)
        /\ DOMAIN ComponentMapping(i) =
              {components[i][k].id : k \in DOMAIN components[i]} \ {"_"}
        /\ \A id \in DOMAIN ComponentMapping(i) :
              /\ ComponentMapping(i)[id] \in DOMAIN components[i]
              /\ components[i][ComponentMapping(i)[id]].id = id
        /\ \A k \in DOMAIN components[i] :
              (/\ components[i][k].id # "_"
               /\ \A m \in DOMAIN components[i] :
                     components[i][m].id = components[i][k].id => m = k)
              => ComponentMapping(i)[components[i][k].id] = k

\* An interface was built from two records without id and its mapping is
\* empty, or from one without and one with id and its mapping holds one.
C18_Witness ==
    /\ IsOp("load")
    /\ Len(components[lastOp.iface]) = 2
    /\ "id" \notin DOMAIN DefRecord(lastOp.iface, 1)
    /\ components[lastOp.iface][1].id = "_"
    /\ components[lastOp.iface][2].id = "a"
    /\ DOMAIN ComponentMapping(lastOp.iface) = {"a"}

\* What a value given as background resolves to.
Resolution(bg) ==
    IF bg = NoBackground THEN DefaultColor ELSE bg

\* C19: the background read back, and the background drawn, are those of
\* the value given last: the image if it is one, the colour otherwise.
C19_LatestBackground ==
    \A i \in loaded :
        /\ Background(i) = Resolution(bgValue[i])
        /\ (IsOp("draw") /\ lastOp.iface = i) =>
              \A n \in DOMAIN trace :
                  trace[n].ev = "background" =>
                      trace[n].grp = IF bgValue[i] = ImageFile THEN "blit"
                                     ELSE "fill"

\* The definition of interface i is malformed: a grid without rows or
\* columns, or a record in a grid cell with a percentage while the
\* interface has no grid.
Malformed(i) ==
    \/ /\ definition[i].display = "grid"
       /\ ~definition[i].rows.some \/ ~definition[i].columns.some
    \/ /\ definition[i].display # "grid"
       /\ \E k \in DOMAIN definition[i].components :
             /\ GridPlaced(i, k)
             /\ \E a \in Geometry \cap DOMAIN Merged(i, k) :
                   Merged(i, k)[a].t = "pct"

\* C20: the construction of an interface from a malformed definition
\* fails: the interface is not built and none of its components is in a
\* group.
C20_MalformedAborts ==
    /\ \A i \in Names : Malformed(i) => i \notin loaded /\ Empty(i)
    /\ IsOp("load") => ~Malformed(lastOp.iface)
    /\ IsOp("load_error") => lastOp.iface \notin loaded /\ Empty(lastOp.iface)

\* A construction failed on the second record of a definition whose first
\* record is well formed.
C20_Witness ==
    /\ IsOp("load_error")
    /\ Malformed(lastOp.iface)
    /\ definition[lastOp.iface].display # "grid"
    /\ Len(definition[lastOp.iface].components) = 2
    /\ ~GridPlaced(lastOp.iface, 1)
    /\ GridPlaced(lastOp.iface, 2)

\* The components of interface i that have type t, and the first of them.
OfType(i, t) == {k \in DOMAIN components[i] : components[i][k].type = t}

FirstOfType(i, t) == CHOOSE k \in OfType(i, t) : \A m \in OfType(i, t) : k <= m

\* The group class the conversion table gives for a type and a subtype.
FactoryFor(type, subtype) ==
    CASE type \in DOMAIN GROUP_CONVERSION_TABLE -> GROUP_CONVERSION_TABLE[type]
      [] /\ type \notin DOMAIN GROUP_CONVERSION_TABLE
         /\ subtype \in DOMAIN GROUP_CONVERSION_TABLE ->
            GROUP_CONVERSION_TABLE[subtype]
      [] OTHER -> "ComponentGroup"

\* The type groups of interface i are the ones its components call for:
\* one for each type that has a component and none for any other type, in
\* the order in which the types first appear, each of the class its first
\* component selects and holding every component of its type.
GroupsAsParsed(i) ==
    /\ \A k \in DOMAIN components[i] :
          \E n \in DOMAIN typeGroups[i] :
              typeGroups[i][n].type = components[i][k].type
    /\ \A n \in DOMAIN typeGroups[i] :
          LET g == typeGroups[i][n]
          IN /\ OfType(i, g.type) # {}
             /\ g.cls = FactoryFor(g.type,
                                   components[i][FirstOfType(i, g.type)].subtype)
             /\ Range(g.members) = OfType(i, g.type)
             /\ \A m \in DOMAIN typeGroups[i] :
                   /\ g.type = typeGroups[i][m].type => n = m
                   /\ n < m => FirstOfType(i, g.type)
                                  < FirstOfType(i, typeGroups[i][m].type)

\* A step leaves every type group of interface i in place, with its type,
\* its class and its members.
GroupsKept(i) ==
    \A n \in DOMAIN typeGroups[i] :
        /\ n \in DOMAIN typeGroups'[i]
        /\ typeGroups'[i][n] = typeGroups[i][n]

\* C21: the group of a type is created once, when the first component of
\* the type is parsed, of the class registered for the type, else of the
\* class registered for the subtype, else a ComponentGroup; every later
\* component of the type joins it, and as long as the interface lives no
\* operation replaces, merges or splits it.
C21_GroupCreatedOnce ==
    /\ [](\A i \in Names : GroupsAsParsed(i))
    /\ [][\A i \in Names : i \in loaded' => GroupsKept(i)]_vars

\* An interface whose two components share a type without a group class of
\* its own has handled a click: one group, of the class of the subtype,
\* holds both.
C21_Witness ==
    /\ IsOp("emit_click")
    /\ Len(components[lastOp.iface]) = 2
    /\ \A k \in 1..2 : components[lastOp.iface][k].type = "link"
    /\ Len(typeGroups[lastOp.iface]) = 1
    /\ typeGroups[lastOp.iface][1].cls = "ClickableGroup"
    /\ typeGroups[lastOp.iface][1].members = <<1, 2>>

\* Record k of interface i names one style class, and the interface does not
\* define it.
UndefinedStyleName(i, k) ==
    /\ "style" \in DOMAIN DefRecord(i, k)
    /\ DefRecord(i, k)["style"].str
    /\ DefRecord(i, k)["style"].names[1] \notin DOMAIN definition[i].styles.classes

\* C22: a record whose style is the name of a class the interface does not
\* define takes nothing from the style classes: the style merge gives the
\* record back, and the component is built without any attribute of a class
\* (the position and size the grid gives a record with a grid cell aside).
C22_UndefinedStyleNameIgnored ==
    \A i \in Names :
        \A k \in DOMAIN definition[i].components :
            UndefinedStyleName(i, k)
            => /\ Merged(i, k) = DefRecord(i, k)
               /\ i \in loaded
                    => \A a \in ClassAttributes(i) \ DOMAIN DefRecord(i, k) :
                          a \in DOMAIN resolved[i][k]
                          => /\ a \in Geometry
                             /\ "grid_cell" \in DOMAIN DefRecord(i, k)
                             /\ definition[i].display = "grid"

\* C23: interface[x] gives the component x when x is one of the components
\* of the interface, and None, without an exception, when it is not.
C23_LookupNeverRaises ==
    IsOp("getitem")
    => LET x == lastOp.arg.asked
       IN lastOp.arg.result =
            IF x.iface = lastOp.iface /\ x.idx \in DOMAIN components[lastOp.iface]
            THEN Returned(x.idx)
            ELSE ReturnedNone

\* A lookup of a component the interface owns, the second of its list, gave
\* that component.
C23_FoundWitness ==
    /\ IsOp("getitem")
    /\ lastOp.arg.asked = [iface |-> lastOp.iface, idx |-> 2]
    /\ lastOp.arg.result = Returned(2)

====
